---- MODULE Spec2Model ----
(***************************************************************************)
(* Model of the parking crate (src/src/lib.rs): one Parker thread and      *)
(* NumUnparkers Unparker clones sharing one Inner { state, lock, cvar }.   *)
(* Every atomic operation, mutex operation and condition-variable          *)
(* operation of Inner::park and Inner::unpark is one step.                 *)
(***************************************************************************)
EXTENDS Integers, Sequences, FiniteSets

\* ---------------------------------------------------------------- bounds
NumUnparkers == 2
MaxDur == 1
MaxInstant == 1
CountCap == 2

\* ------------------------------------------------------- program constants
EMPTY == 0
PARKED == 1
NOTIFIED == 2

\* Thread identities: the single owner of the Parker, and the Unparker clones.
Main == 0
Unparkers == 1..NumUnparkers

\* Option<T>
None == <<>>
Some(d) == <<d>>

\* Duration::from_millis(ms), in ticks of one millisecond
from_millis(ms) == ms

\* faulty variant: the absolute difference instead of the saturating one
duration_since_abs(instant, earlier) ==
    IF instant > earlier THEN instant - earlier ELSE earlier - instant

\* Instant::saturating_duration_since
saturating_duration_since(instant, earlier) ==
    IF instant > earlier THEN instant - earlier ELSE 0

\* AtomicUsize::compare_exchange: the new cell value and Ok/Err(old)
compare_exchange(cur, expected, new) ==
    IF cur = expected THEN [ok |-> TRUE, old |-> cur, val |-> new]
                      ELSE [ok |-> FALSE, old |-> cur, val |-> cur]

\* faulty variant: a load, the cell keeps its value
swap_load(cur, new) == [old |-> cur, val |-> cur]

\* AtomicUsize::swap: the new cell value and the old one
swap(cur, new) == [old |-> cur, val |-> new]

\* a capped history counter
Bump(n) == IF n < CountCap THEN n + 1 ELSE n

VARIABLES
    state,      \* Inner.state
    lock,       \* Inner.lock: the set of threads holding the mutex (at most one)
    poisoned,   \* Inner.lock was held by a thread that panicked
    cvar,       \* Inner.cvar: the set of threads blocked in wait / wait_timeout
    pc,         \* where the Parker thread is inside Inner::park
    timeout,    \* the Option<Duration> argument of the current (or last) call
    ret,        \* Some(value returned by Inner::park) once the call has returned
    elapsed,    \* milliseconds since the current wait_timeout began
    upc,        \* where each Unparker thread is inside Inner::unpark
    uret,       \* Some(value returned by the Unparker's finished unpark call)
    hStart,     \* history: state when the current park* call began
    hPast,      \* history: the call is park_deadline with an instant not after now
    hLocked,    \* history: the current park* call acquired the mutex
    hWaited,    \* history: the current park* call waited on the condvar
    hWake,      \* history: why the last condvar wait ended
    hConsumed,  \* history: own steps of the call that took NOTIFIED to EMPTY
    hSwaps,     \* history: unpark swaps since the last consumption
    hTrues,     \* history: those of them that saw a state other than NOTIFIED
    hAbsTrues,  \* history: hTrues at the moment of the last consumption
    hBalance,   \* history: unpark swaps that saw a state other than NOTIFIED,
                \*          less the own steps of park that took NOTIFIED to EMPTY
    hInTime,    \* history: an unpark swap landed in this blocking timed call
                \*          before its timer fired and before its last step on state
    hLate,      \* history: ... before its timer fired, after its last step on state
    hRaced,     \* history: an unpark swap landed in this call after its fast-path
                \*          exchange failed and before its exchange under the mutex
    hStale,     \* history: the Unparkers between swap and notify_one whose
                \*          notification the Parker has already consumed
    hAnyUnpark, \* history: some unpark call has been made since construction
    coal,       \* history: progress through the coalescing scenario (see CoalSwap)
    race        \* history: progress through the timeout-race scenario (see RaceEnter)

shared == <<state, lock, poisoned, cvar>>
parker == <<pc, timeout, ret, elapsed>>
unparkers == <<upc, uret>>
callhist == <<hStart, hPast, hLocked, hWaited, hWake>>
racehist == <<hInTime, hLate, hRaced, race>>
notifhist == <<hConsumed, hSwaps, hTrues, hAbsTrues, hBalance>>
vars == <<shared, parker, unparkers, callhist, racehist, notifhist, coal,
          hAnyUnpark, hStale>>

\* ------------------------------------------------------------------ Init
\* Parker::new: state EMPTY, fresh mutex and condvar, no call in progress.
Init ==
    /\ state = EMPTY
    /\ lock = {}
    /\ poisoned = FALSE
    /\ cvar = {}
    /\ pc = "idle"
    /\ timeout = None
    /\ ret = None
    /\ elapsed = 0
    /\ upc = [u \in Unparkers |-> "idle"]
    /\ uret = [u \in Unparkers |-> None]
    /\ hStart = EMPTY
    /\ hPast = FALSE
    /\ hLocked = FALSE
    /\ hWaited = FALSE
    /\ hWake = "none"
    /\ hConsumed = 0
    /\ hSwaps = 0
    /\ hTrues = 0
    /\ hAbsTrues = 0
    /\ hBalance = 0
    /\ hInTime = FALSE
    /\ hLate = FALSE
    /\ hRaced = FALSE
    /\ hStale = {}
    /\ hAnyUnpark = FALSE
    /\ coal = "e"
    /\ race = "off"

\* the call in progress (or the last one) by the kind of its timeout
Untimed == timeout = None
Timed == timeout # None
ZeroPoll == timeout # None /\ timeout[1] = 0
Blocking == timeout # None /\ timeout[1] > 0

\* the timer of the current timed wait has fired
TimerFired == timeout # None /\ elapsed >= timeout[1]

\* the Unparkers that saw PARKED and are on their way to notify_one
Signalling == {u \in Unparkers : upc[u] \in {"lock", "unlock", "notify"}}

\* history bookkeeping for an own step of park that replaces old by val
Consume(old, val) ==
    IF old = NOTIFIED /\ val = EMPTY
    THEN /\ hConsumed' = hConsumed + 1
         /\ hAbsTrues' = hTrues
         /\ hSwaps' = 0
         /\ hTrues' = 0
         /\ hBalance' = hBalance - 1
         /\ hStale' = Signalling
    ELSE UNCHANGED <<notifhist, hStale>>

\* The coalescing scenario, followed by the monitor coal:
\*   "e"    the Parker is idle, the cell was EMPTY when it became idle (or was
\*          constructed) and no unpark swap has landed since;
\*   "u1T"  one unpark swap has landed since, and its call returned true;
\*   "u2"   two or more have, the first returned true, the later ones false;
\*   "p1"   the next park* call after "u2" is in progress, no unpark swap since;
\*   "p1T"  it returned true and no unpark swap has landed since it began;
\*   "p2"   a park_timeout(0) / past park_deadline after "p1T" is in progress;
\*   "p2F"  it returned false;
\*   "u1F", "u2T", "p1F", "p2T" are the outcomes the scenario excludes;
\*   "off"  the execution is not in the scenario.
\* An unpark swap lands; now says whether its call returns true at once.
CoalSwap(now) ==
    CASE coal \in {"e", "p1T", "p2F"} -> IF now THEN "u1T" ELSE "u1F"
      [] coal \in {"u1T", "u2"} -> IF now THEN "u2T" ELSE "u2"
      [] coal \in {"p1", "p2"} -> "off"
      [] OTHER -> coal

\* a park* call begins with the given timeout
CoalEnter(t) ==
    CASE coal = "u2" -> "p1"
      [] coal = "p1T" /\ t = Some(0) -> "p2"
      [] coal \in {"u1F", "u2T", "p1F", "p2T"} -> coal
      [] OTHER -> "off"

\* a park* call returns r and leaves the cell in state s
CoalReturn(r, s) ==
    CASE coal = "p1" -> IF r THEN "p1T" ELSE "p1F"
      [] coal = "p2" -> IF r THEN "p2T" ELSE "p2F"
      [] coal \in {"u1F", "u2T", "p1F", "p2T"} -> coal
      [] OTHER -> IF s = EMPTY THEN "e" ELSE "off"

\* The timeout-race scenario, followed by the monitor race:
\*   "clean" a blocking timed call is running (or has returned), no unpark call
\*           was in flight when it began and none has been issued since;
\*   "one"   exactly one has been issued since, while the Parker was blocked in
\*           wait_timeout, and its swap has not landed yet;
\*   "before" its swap landed before the park call's last step on state;
\*   "after"  its swap landed after the park call's last step on state;
\*   "off"   anything else.
RaceEnter(t) ==
    IF t # None /\ t[1] > 0 /\ \A u \in Unparkers : upc[u] = "idle"
    THEN "clean" ELSE "off"

RaceUnpark == IF race = "clean" /\ pc = "waiting" THEN "one" ELSE "off"

RaceSwap ==
    IF race = "one"
    THEN IF pc \in {"idle", "drop"} THEN "after" ELSE "before"
    ELSE race

\* ------------------------------------------------------- Parker: entry
\* Inner::park is entered with the given Option<Duration>.
Enter(t, past) ==
    /\ pc = "idle"
    /\ pc' = "fast"
    /\ timeout' = t
    /\ elapsed' = 0
    /\ hStart' = state
    /\ hPast' = past
    /\ hLocked' = FALSE
    /\ hWaited' = FALSE
    /\ hWake' = "none"
    /\ hConsumed' = 0
    /\ hInTime' = FALSE
    /\ hLate' = FALSE
    /\ hRaced' = FALSE
    /\ coal' = CoalEnter(t)
    /\ race' = RaceEnter(t)
    /\ ret' = None
    /\ UNCHANGED <<shared, unparkers, hSwaps, hTrues, hAbsTrues, hBalance,
                   hAnyUnpark, hStale>>

\* Parker::park (lines 37-39)
park == Enter(None, FALSE)

\* Parker::park_timeout (lines 44-46)
park_timeout == \E d \in 0..MaxDur : Enter(Some(d), FALSE)

\* Parker::park_deadline (lines 51-53)
park_deadline ==
    \E instant \in 0..MaxInstant, now \in 0..MaxInstant :
        Enter(Some(saturating_duration_since(instant, now)), instant <= now)

\* ---------------------------------------------------- Inner::park steps
\* faulty variant: no fast-path exchange, an untimed or blocking call goes
\* straight for the mutex
park_fast_nofast ==
    /\ pc = "fast"
    /\ IF timeout # None /\ timeout[1] = from_millis(0)
       THEN LET r == compare_exchange(state, NOTIFIED, EMPTY) IN
            /\ state' = r.val
            /\ Consume(r.old, r.val)
            /\ pc' = "idle"
            /\ ret' = Some(r.ok)
            /\ coal' = CoalReturn(r.ok, r.val)
       ELSE pc' = "lock" /\ UNCHANGED <<state, ret, coal, notifhist, hStale>>
    /\ UNCHANGED <<lock, poisoned, cvar, timeout, elapsed, unparkers,
                   callhist, racehist, hAnyUnpark>>

\* lines 119-128: the fast-path exchange and the zero-timeout return
park_fast ==
    /\ pc = "fast"
    /\ LET r == compare_exchange(state, NOTIFIED, EMPTY) IN
        /\ state' = r.val
        /\ Consume(r.old, r.val)
        /\ IF r.ok
           THEN pc' = "idle" /\ ret' = Some(TRUE) /\ coal' = CoalReturn(TRUE, r.val)
           ELSE IF timeout # None /\ timeout[1] = from_millis(0)
                THEN /\ pc' = "idle"
                     /\ ret' = Some(FALSE)
                     /\ coal' = CoalReturn(FALSE, r.val)
                ELSE pc' = "lock" /\ UNCHANGED <<ret, coal>>
    /\ UNCHANGED <<lock, poisoned, cvar, timeout, elapsed, unparkers,
                   callhist, racehist, hAnyUnpark>>

\* line 131: self.lock.lock().unwrap()
park_lock ==
    /\ pc = "lock"
    /\ lock = {}
    /\ IF poisoned
       THEN pc' = "panic" /\ UNCHANGED <<lock, hLocked>>
       ELSE pc' = "cas" /\ lock' = {Main} /\ hLocked' = TRUE
    /\ UNCHANGED <<state, poisoned, cvar, timeout, ret, elapsed, unparkers,
                   hStart, hPast, hWaited, hWake,
                   racehist, notifhist, coal, hAnyUnpark, hStale>>

\* faulty variant: a plain store of PARKED instead of the exchange
park_cas_store ==
    /\ pc = "cas"
    /\ state' = PARKED
    /\ pc' = "wait"
    /\ UNCHANGED <<lock, poisoned, cvar, timeout, ret, elapsed, unparkers,
                   callhist, racehist, notifhist, coal, hAnyUnpark, hStale>>

\* lines 133-142: the EMPTY -> PARKED exchange under the mutex
park_cas ==
    /\ pc = "cas"
    /\ LET r == compare_exchange(state, EMPTY, PARKED) IN
        /\ state' = r.val
        /\ CASE r.ok -> pc' = "wait" /\ UNCHANGED <<lock, poisoned>>
             [] ~r.ok /\ r.old = NOTIFIED ->
                    pc' = "consume" /\ UNCHANGED <<lock, poisoned>>
             [] OTHER -> pc' = "panic" /\ lock' = {} /\ poisoned' = TRUE
    /\ UNCHANGED <<cvar, timeout, ret, elapsed, unparkers, callhist,
                   racehist, notifhist, coal, hAnyUnpark, hStale>>

\* lines 137-139: swap(EMPTY) and the assert_eq!(old, NOTIFIED)
park_consume ==
    /\ pc = "consume"
    /\ LET r == swap(state, EMPTY) IN
        /\ state' = r.val
        /\ Consume(r.old, r.val)
        /\ IF r.old = NOTIFIED
           THEN pc' = "drop" /\ ret' = Some(TRUE) /\ UNCHANGED <<lock, poisoned>>
           ELSE pc' = "panic" /\ lock' = {} /\ poisoned' = TRUE /\ UNCHANGED ret
    /\ UNCHANGED <<cvar, timeout, elapsed, unparkers, callhist, racehist,
                   coal, hAnyUnpark>>

\* faulty variant: the wait blocks with the mutex still held
park_wait_locked ==
    /\ pc = "wait"
    /\ pc' = "waiting"
    /\ cvar' = cvar \cup {Main}
    /\ elapsed' = 0
    /\ hWaited' = TRUE
    /\ UNCHANGED <<state, lock, poisoned, timeout, ret, unparkers,
                   hStart, hPast, hLocked, hWake,
                   racehist, notifhist, coal, hAnyUnpark, hStale>>

\* lines 148 and 158: cvar.wait / cvar.wait_timeout releases the mutex and blocks
park_wait ==
    /\ pc = "wait"
    /\ pc' = "waiting"
    /\ lock' = lock \ {Main}
    /\ cvar' = cvar \cup {Main}
    /\ elapsed' = 0
    /\ hWaited' = TRUE
    /\ UNCHANGED <<state, poisoned, timeout, ret, unparkers,
                   hStart, hPast, hLocked, hWake,
                   racehist, notifhist, coal, hAnyUnpark, hStale>>

\* time passes while the Parker is blocked in wait_timeout
tick ==
    /\ pc = "waiting"
    /\ timeout # None
    /\ elapsed < timeout[1]
    /\ elapsed' = elapsed + 1
    /\ UNCHANGED <<shared, pc, timeout, ret, unparkers, callhist,
                   racehist, notifhist, coal, hAnyUnpark, hStale>>

\* the blocked thread leaves the condvar's wait queue for the given reason
Wake(why) ==
    /\ cvar' = cvar \ {Main}
    /\ pc' = "relock"
    /\ hWake' = why
    /\ UNCHANGED <<state, lock, poisoned, timeout, ret, elapsed,
                   hStart, hPast, hLocked, hWaited,
                   racehist, notifhist, coal, hAnyUnpark>>

\* wait_timeout ends because the duration has elapsed
cvar_timeout ==
    /\ pc = "waiting"
    /\ Main \in cvar
    /\ TimerFired
    /\ Wake("timeout")
    /\ UNCHANGED <<unparkers, hStale>>

\* wait / wait_timeout ends with no notify_one and no timeout (spurious wake-up)
cvar_spurious ==
    /\ pc = "waiting"
    /\ Main \in cvar
    /\ Wake("spurious")
    /\ UNCHANGED <<unparkers, hStale>>

\* wait / wait_timeout re-acquires the mutex before it returns; on a poisoned
\* mutex it returns Err, the unwrap() panics and the guard is dropped
park_relock ==
    /\ pc = "relock"
    /\ lock = {}
    /\ IF poisoned
       THEN pc' = "panic" /\ UNCHANGED lock
       ELSE /\ lock' = {Main}
            /\ pc' = IF timeout = None THEN "recheck" ELSE "swap"
    /\ UNCHANGED <<state, poisoned, cvar, timeout, ret, elapsed, unparkers,
                   callhist, racehist, notifhist, coal, hAnyUnpark, hStale>>

\* faulty variant: no loop, any wake-up ends the untimed park
park_recheck_noloop ==
    /\ pc = "recheck"
    /\ LET r == compare_exchange(state, NOTIFIED, EMPTY) IN
        /\ state' = r.val
        /\ Consume(r.old, r.val)
        /\ pc' = "drop"
        /\ ret' = Some(TRUE)
    /\ UNCHANGED <<lock, poisoned, cvar, timeout, elapsed, unparkers,
                   callhist, racehist, coal, hAnyUnpark>>

\* lines 146-153: the untimed loop's exchange after each wake-up
park_recheck ==
    /\ pc = "recheck"
    /\ LET r == compare_exchange(state, NOTIFIED, EMPTY) IN
        /\ state' = r.val
        /\ Consume(r.old, r.val)
        /\ IF r.ok
           THEN pc' = "drop" /\ ret' = Some(TRUE)
           ELSE pc' = "wait" /\ UNCHANGED ret
    /\ UNCHANGED <<lock, poisoned, cvar, timeout, elapsed, unparkers,
                   callhist, racehist, coal, hAnyUnpark>>

\* faulty variants of the step after the timed wait: the cell is left at
\* val(old), and the call returns onNotified / onParked
ParkSwapAs(val(_), onNotified, onParked) ==
    /\ pc = "swap"
    /\ LET r == [old |-> state, val |-> val(state)] IN
        /\ state' = r.val
        /\ Consume(r.old, r.val)
        /\ CASE r.old = NOTIFIED ->
                    pc' = "drop" /\ ret' = Some(onNotified)
                    /\ UNCHANGED <<lock, poisoned>>
             [] r.old = PARKED ->
                    pc' = "drop" /\ ret' = Some(onParked)
                    /\ UNCHANGED <<lock, poisoned>>
             [] OTHER ->
                    pc' = "panic" /\ lock' = {} /\ poisoned' = TRUE /\ UNCHANGED ret
    /\ UNCHANGED <<cvar, timeout, elapsed, unparkers, callhist, racehist,
                   coal, hAnyUnpark>>
ToEmpty(old) == EMPTY
Keep(old) == old
OnlyNotified(old) == compare_exchange(old, NOTIFIED, EMPTY).val
\* PARKED => true
park_swap_parked_true == ParkSwapAs(ToEmpty, TRUE, TRUE)
\* NOTIFIED => false
park_swap_notified_false == ParkSwapAs(ToEmpty, FALSE, FALSE)
\* a compare_exchange(NOTIFIED, EMPTY) instead of the unconditional swap
park_swap_cas == ParkSwapAs(OnlyNotified, TRUE, FALSE)
\* a load instead of the swap
park_swap_load == ParkSwapAs(Keep, TRUE, FALSE)

\* lines 159-163: the unconditional swap after the timed wait
park_swap ==
    /\ pc = "swap"
    /\ LET r == swap(state, EMPTY) IN
        /\ state' = r.val
        /\ Consume(r.old, r.val)
        /\ CASE r.old = NOTIFIED ->
                    pc' = "drop" /\ ret' = Some(TRUE) /\ UNCHANGED <<lock, poisoned>>
             [] r.old = PARKED ->
                    pc' = "drop" /\ ret' = Some(FALSE) /\ UNCHANGED <<lock, poisoned>>
             [] OTHER ->
                    pc' = "panic" /\ lock' = {} /\ poisoned' = TRUE /\ UNCHANGED ret
    /\ UNCHANGED <<cvar, timeout, elapsed, unparkers, callhist, racehist,
                   coal, hAnyUnpark>>

\* faulty variant: the guard is leaked, the mutex stays locked
park_drop_forget ==
    /\ pc = "drop"
    /\ pc' = "idle"
    /\ coal' = CoalReturn(ret[1], state)
    /\ UNCHANGED <<shared, timeout, ret, elapsed, unparkers,
                   callhist, racehist, notifhist, hAnyUnpark, hStale>>

\* the MutexGuard goes out of scope as Inner::park returns
park_drop ==
    /\ pc = "drop"
    /\ lock' = lock \ {Main}
    /\ pc' = "idle"
    /\ coal' = CoalReturn(ret[1], state)
    /\ UNCHANGED <<state, poisoned, cvar, timeout, ret, elapsed, unparkers,
                   callhist, racehist, notifhist, hAnyUnpark, hStale>>

\* -------------------------------------------------- Inner::unpark steps
\* Unparker::unpark (lines 87-89) or Parker::unpark (lines 59-61) on thread u
unpark(u) ==
    /\ upc[u] = "idle"
    /\ upc' = [upc EXCEPT ![u] = "swap"]
    /\ uret' = [uret EXCEPT ![u] = None]
    /\ hAnyUnpark' = TRUE
    /\ race' = RaceUnpark
    /\ UNCHANGED <<shared, parker, callhist, hInTime, hLate, hRaced, notifhist,
                   coal, hStale>>

\* faulty variants of the swap step: what the call returns when it saw
\* NOTIFIED and returns at once, and where it continues when it saw NOTIFIED
\* and when it saw PARKED
UnparkSwapAs(u, onNotified, notifiedNext, parkedNext) ==
    /\ upc[u] = "swap"
    /\ LET r == swap(state, NOTIFIED) IN
        /\ state' = r.val
        /\ CASE r.old = EMPTY ->
                    upc' = [upc EXCEPT ![u] = "idle"]
                    /\ uret' = [uret EXCEPT ![u] = Some(TRUE)]
             [] r.old = NOTIFIED ->
                    IF notifiedNext = "idle"
                    THEN upc' = [upc EXCEPT ![u] = "idle"]
                         /\ uret' = [uret EXCEPT ![u] = Some(onNotified)]
                    ELSE upc' = [upc EXCEPT ![u] = notifiedNext] /\ UNCHANGED uret
             [] r.old = PARKED ->
                    upc' = [upc EXCEPT ![u] = parkedNext] /\ UNCHANGED uret
             [] OTHER ->
                    upc' = [upc EXCEPT ![u] = "panic"] /\ UNCHANGED uret
        /\ hSwaps' = Bump(hSwaps)
        /\ hTrues' = IF r.old # NOTIFIED THEN Bump(hTrues) ELSE hTrues
        /\ hBalance' = IF r.old # NOTIFIED THEN hBalance + 1 ELSE hBalance
    /\ coal' = CoalSwap(uret'[u] = Some(TRUE))
    /\ hInTime' = (hInTime \/ (Blocking /\ ~TimerFired
                               /\ pc \notin {"idle", "drop", "panic"}))
    /\ hLate' = (hLate \/ (Blocking /\ ~TimerFired /\ pc = "drop"))
    /\ hRaced' = (hRaced \/ pc \in {"lock", "cas"})
    /\ race' = RaceSwap
    /\ UNCHANGED <<lock, poisoned, cvar, parker, callhist,
                   hConsumed, hAbsTrues, hAnyUnpark, hStale>>
\* NOTIFIED => return true
unpark_swap_always_true(u) == UnparkSwapAs(u, TRUE, "idle", "lock")
\* no rendezvous on the mutex before notify_one
unpark_swap_norendezvous(u) == UnparkSwapAs(u, FALSE, "idle", "notify")
\* NOTIFIED => the rendezvous and notify_one, as for PARKED
unpark_swap_always_signal(u) == UnparkSwapAs(u, FALSE, "lock", "lock")

\* lines 173-178: swap(NOTIFIED) and the branch on the old value
unpark_swap(u) ==
    /\ upc[u] = "swap"
    /\ LET r == swap(state, NOTIFIED) IN
        /\ state' = r.val
        /\ CASE r.old = EMPTY ->
                    upc' = [upc EXCEPT ![u] = "idle"]
                    /\ uret' = [uret EXCEPT ![u] = Some(TRUE)]
             [] r.old = NOTIFIED ->
                    upc' = [upc EXCEPT ![u] = "idle"]
                    /\ uret' = [uret EXCEPT ![u] = Some(FALSE)]
             [] r.old = PARKED ->
                    upc' = [upc EXCEPT ![u] = "lock"] /\ UNCHANGED uret
             [] OTHER ->
                    upc' = [upc EXCEPT ![u] = "panic"] /\ UNCHANGED uret
        /\ hSwaps' = Bump(hSwaps)
        /\ hTrues' = IF r.old # NOTIFIED THEN Bump(hTrues) ELSE hTrues
        /\ hBalance' = IF r.old # NOTIFIED THEN hBalance + 1 ELSE hBalance
    /\ coal' = CoalSwap(uret'[u] = Some(TRUE))
    /\ hInTime' = (hInTime \/ (Blocking /\ ~TimerFired
                               /\ pc \notin {"idle", "drop", "panic"}))
    /\ hLate' = (hLate \/ (Blocking /\ ~TimerFired /\ pc = "drop"))
    /\ hRaced' = (hRaced \/ pc \in {"lock", "cas"})
    /\ race' = RaceSwap
    /\ UNCHANGED <<lock, poisoned, cvar, parker, callhist,
                   hConsumed, hAbsTrues, hAnyUnpark, hStale>>

\* line 188: self.lock.lock().unwrap()
unpark_lock(u) ==
    /\ upc[u] = "lock"
    /\ lock = {}
    /\ IF poisoned
       THEN upc' = [upc EXCEPT ![u] = "panic"] /\ UNCHANGED lock
       ELSE upc' = [upc EXCEPT ![u] = "unlock"] /\ lock' = {u}
    /\ UNCHANGED <<state, poisoned, cvar, parker, uret, callhist,
                   racehist, notifhist, coal, hAnyUnpark, hStale>>

\* line 188: drop(guard)
unpark_unlock(u) ==
    /\ upc[u] = "unlock"
    /\ lock' = lock \ {u}
    /\ upc' = [upc EXCEPT ![u] = "notify"]
    /\ UNCHANGED <<state, poisoned, cvar, parker, uret, callhist,
                   racehist, notifhist, coal, hAnyUnpark, hStale>>

\* faulty variant: the signalling path returns false
unpark_notify_false(u) ==
    /\ upc[u] = "notify"
    /\ IF cvar # {}
       THEN Wake("notify")
       ELSE UNCHANGED <<shared, parker, callhist, racehist, notifhist,
                        coal, hAnyUnpark>>
    /\ upc' = [upc EXCEPT ![u] = "idle"]
    /\ uret' = [uret EXCEPT ![u] = Some(FALSE)]
    /\ hStale' = hStale \ {u}

\* lines 189-190: cvar.notify_one() and return true
unpark_notify(u) ==
    /\ upc[u] = "notify"
    /\ IF cvar # {}
       THEN Wake("notify")
       ELSE UNCHANGED <<shared, parker, callhist, racehist, notifhist,
                        coal, hAnyUnpark>>
    /\ upc' = [upc EXCEPT ![u] = "idle"]
    /\ uret' = [uret EXCEPT ![u] = Some(TRUE)]
    /\ hStale' = hStale \ {u}

\* ------------------------------------------------------------ the system
Next ==
    \/ park
    \/ park_timeout
    \/ park_deadline
    \/ park_fast
    \/ park_lock
    \/ park_cas
    \/ park_consume
    \/ park_wait
    \/ tick
    \/ cvar_timeout
    \/ cvar_spurious
    \/ park_relock
    \/ park_recheck
    \/ park_swap
    \/ park_drop
    \/ \E u \in Unparkers : unpark(u)
    \/ \E u \in Unparkers : unpark_swap(u)
    \/ \E u \in Unparkers : unpark_lock(u)
    \/ \E u \in Unparkers : unpark_unlock(u)
    \/ \E u \in Unparkers : unpark_notify(u)

Spec == Init /\ [][Next]_vars

\* Scheduling: every thread that can take a step of its own eventually takes
\* it (pre-emptive OS threads) and the clock of a timed wait advances.  Nothing
\* obliges a caller to make a call, nor the condvar to wake up spuriously.
ParkerRuns ==
    park_fast \/ park_lock \/ park_cas \/ park_consume \/ park_wait
        \/ park_relock \/ park_recheck \/ park_swap \/ park_drop
ClockRuns == tick \/ cvar_timeout
UnparkerRuns(u) ==
    unpark_swap(u) \/ unpark_lock(u) \/ unpark_unlock(u) \/ unpark_notify(u)

Fairness ==
    /\ WF_vars(ParkerRuns)
    /\ WF_vars(ClockRuns)
    /\ \A u \in Unparkers : WF_vars(UnparkerRuns(u))

FairSpec == Init /\ [][Next]_vars /\ Fairness

\* ----------------------------------------------------------------- claims
InCall == pc # "idle"
Returned == pc = "idle" /\ ret # None

\* C1: no missed wakeup: whenever an untimed park() is in progress and a
\* notification is pending (state NOTIFIED) or an unpark call has been made
\* whose swap is still to land, wherever in park the Parker is, the call
\* eventually returns under fair scheduling.
C1_NoMissedWakeup ==
    (InCall /\ Untimed /\ (state = NOTIFIED \/ \E u \in Unparkers : upc[u] = "swap"))
        ~> (pc = "idle")

\* an untimed park() that blocked, was signalled by an unpark and returned
C1_Witness ==
    Returned /\ Untimed /\ hWaited /\ hWake = "notify" /\ ret = Some(TRUE)

\* C2: an untimed park() returns only by consuming a notification: whenever it
\* has returned (or is about to, holding the result) the result is true, one
\* of its own steps took NOTIFIED to EMPTY, and that step absorbed the one
\* first unpark swap landed since the previous consumption; and a wake-up that finds the state
\* still PARKED sends park() back to waiting with the state untouched.
C2_ReturnsConsumed ==
    (Untimed /\ (Returned \/ pc = "drop")) =>
        /\ ret = Some(TRUE)
        /\ hConsumed = 1
        /\ hAbsTrues = 1
C2_StaleWakeLoops ==
    (pc = "recheck" /\ state = PARKED /\ pc' # pc) =>
        /\ pc' = "wait"
        /\ state' = PARKED
        /\ ret' = ret
C2_ParkOnlyByConsuming == []C2_ReturnsConsumed /\ [][C2_StaleWakeLoops]_vars

\* an untimed park() woke up with no notification and is about to wait again
C2_Witness ==
    pc = "wait" /\ Untimed /\ hWake \in {"spurious", "notify"} /\ state = PARKED

\* C3: a park* call that begins with the notification pending (state NOTIFIED)
\* never leaves the fast path: it never takes the mutex, never waits on the
\* condvar, returns true, and its one consuming step set the state to EMPTY.
C3_FastPath ==
    (hStart = NOTIFIED /\ (InCall \/ Returned)) =>
        /\ pc \in {"fast", "idle"}
        /\ ~hLocked
        /\ ~hWaited
        /\ Main \notin lock
        /\ Main \notin cvar
        /\ pc = "idle" => (ret = Some(TRUE) /\ hConsumed = 1 /\ hAbsTrues = 1)

\* unpark() completed, then park() was called and returned on the fast path
C3_Witness ==
    /\ Returned /\ Untimed /\ hStart = NOTIFIED /\ ret = Some(TRUE)
    /\ state = EMPTY
    /\ \A u \in Unparkers : upc[u] = "idle"
    /\ \E u \in Unparkers : uret[u] = Some(TRUE)

\* C4: coalescing: of k >= 2 unpark() calls on an idle EMPTY cell the first
\* returns true and the later ones false, they leave the state NOTIFIED, the
\* next park* call returns true having consumed once, and a park_timeout(0)
\* after it with no further unpark returns false.
C4_Coalescing ==
    /\ coal \notin {"u1F", "u2T", "p1F", "p2T"}
    /\ coal \in {"u1T", "u2"} => state = NOTIFIED
    /\ coal = "p1T" => (ret = Some(TRUE) /\ hConsumed = 1 /\ state = EMPTY)
    /\ coal = "p2F" => (ret = Some(FALSE) /\ hConsumed = 0 /\ state = EMPTY)

\* the whole scenario has run: k >= 2 unparks, park* true, park_timeout(0) false
C4_Witness == coal = "p2F" /\ pc = "idle"

\* C5: between two consecutive consumptions (or since construction) exactly one
\* unpark swap is the first: at most one saw a state other than NOTIFIED,
\* exactly one did as soon as any swap landed, every consumption absorbed
\* exactly one such swap, a park* call consumes at most once and returns true
\* only by consuming; and an unpark call returns true exactly when its swap saw
\* a state other than NOTIFIED.
C5_OneFirstPerCycle ==
    /\ hTrues <= 1
    /\ hSwaps >= 1 => hTrues = 1
    /\ hConsumed <= 1
    /\ hConsumed = 1 => hAbsTrues = 1
    /\ (Returned /\ ret = Some(TRUE)) => hConsumed = 1
C5_ReturnValue ==
    \A u \in Unparkers :
        (upc[u] # "idle" /\ upc'[u] = "idle") =>
            uret'[u] = Some(IF upc[u] = "swap" THEN state # NOTIFIED ELSE TRUE)
C5_UnparkFirstOnly == []C5_OneFirstPerCycle /\ [][C5_ReturnValue]_vars

\* two clones raced on a parked Parker: one saw PARKED and is on its way to
\* signal, the other saw NOTIFIED and returned false
C5_Witness ==
    /\ hSwaps >= 2 /\ hTrues = 1
    /\ \E u \in Unparkers : upc[u] \in {"lock", "unlock", "notify"}
    /\ \E u \in Unparkers : upc[u] = "idle" /\ uret[u] = Some(FALSE)

\* C6: a timed call (park_timeout / park_deadline) returns true exactly when
\* one of its own steps took NOTIFIED to EMPTY; it returns false only from the
\* zero-duration poll (no mutex taken) or from the swap after the wait.
C6_TimedTrueIffConsumed ==
    (Returned /\ Timed) =>
        /\ hConsumed <= 1
        /\ (ret = Some(TRUE)) <=> (hConsumed = 1)
        /\ (ret = Some(FALSE)) =>
              \/ ZeroPoll /\ ~hLocked /\ ~hWaited
              \/ Blocking /\ hLocked /\ hWaited

\* a blocking timed call waited, found NOTIFIED after the wait, returned true
C6_Witness ==
    Returned /\ Blocking /\ hWaited /\ ret = Some(TRUE) /\ hConsumed = 1

\* C7: park_timeout(0), and park_deadline with an instant not after now, is a
\* zero-duration poll: it never takes the mutex and never waits; its single
\* step returns true and sets EMPTY if the state was NOTIFIED, and otherwise
\* returns false and leaves the state as it was.
C7_PollNeverBlocks ==
    ((InCall \/ Returned) /\ (ZeroPoll \/ hPast)) =>
        /\ ZeroPoll
        /\ pc \in {"fast", "idle"}
        /\ ~hLocked
        /\ ~hWaited
C7_PollStep ==
    (pc = "fast" /\ (ZeroPoll \/ hPast) /\ pc' # pc) =>
        /\ pc' = "idle"
        /\ lock' = lock
        /\ cvar' = cvar
        /\ IF state = NOTIFIED
           THEN ret' = Some(TRUE) /\ state' = EMPTY
           ELSE ret' = Some(FALSE) /\ state' = state
C7_ZeroDurationPoll == []C7_PollNeverBlocks /\ [][C7_PollStep]_vars

\* a park_deadline whose instant had passed returned false on an EMPTY cell
C7_Witness ==
    Returned /\ hPast /\ ret = Some(FALSE) /\ state = EMPTY /\ hStart = EMPTY

\* C8 (as stated): with no unpark ever called, a blocking timed call returns
\* false, leaves the state EMPTY and has not returned before its timeout
\* elapsed.
C8_Original ==
    (Returned /\ Blocking /\ hStart = EMPTY /\ ~hAnyUnpark) =>
        /\ ret = Some(FALSE)
        /\ state = EMPTY
        /\ TimerFired

\* C8 (amended): with no unpark ever called, a blocking timed call terminates,
\* returns false and leaves the state EMPTY; it returns after its timeout has
\* elapsed or, earlier, when the condvar wait wakes up spuriously.
C8_ReturnsFalse ==
    (Returned /\ Blocking /\ hStart = EMPTY /\ ~hAnyUnpark) =>
        /\ ret = Some(FALSE)
        /\ state = EMPTY
        /\ hWaited
        /\ TimerFired \/ hWake = "spurious"
C8_Amended ==
    /\ []C8_ReturnsFalse
    /\ (InCall /\ Blocking /\ ~hAnyUnpark) ~> (pc = "idle" \/ hAnyUnpark)

\* a blocking timed call with no notifier ran into its timeout
C8_Witness ==
    /\ Returned /\ Blocking /\ ~hAnyUnpark
    /\ hWake = "timeout" /\ TimerFired /\ ret = Some(FALSE)

\* C9 (as stated): a blocking timed call returns true whenever an unpark swap
\* landed during the call before the timeout fired.
C9_Original ==
    (Returned /\ Blocking /\ (hInTime \/ hLate)) => ret = Some(TRUE)

\* C9 (amended): a blocking timed call returns true whenever an unpark swap
\* landed during the call before the timeout fired and before the call's own
\* last step on the state.
C9_Amended ==
    (Returned /\ Blocking /\ hInTime) => (ret = Some(TRUE) /\ hConsumed = 1)

\* the unpark landed during the wait and the call returned true
C9_Witness ==
    Returned /\ Blocking /\ hInTime /\ hWaited /\ ret = Some(TRUE)

\* C10 (as stated): after a blocking timed call and the one unpark issued
\* during its wait have both returned, the state is EMPTY.
C10_Original ==
    (Returned /\ race \in {"before", "after"} /\ \A u \in Unparkers : upc[u] = "idle")
        => state = EMPTY

\* C10 (amended): after both have returned the state is never PARKED: it is
\* EMPTY, with park_timeout returning true, when the unpark's swap landed
\* before park_timeout's last step on the state, and NOTIFIED, with
\* park_timeout returning false, when it landed after it.
C10_Amended ==
    (Returned /\ \A u \in Unparkers : upc[u] = "idle") =>
        /\ race = "before" => (state = EMPTY /\ ret = Some(TRUE))
        /\ race = "after" => (state = NOTIFIED /\ ret = Some(FALSE))

\* both calls returned, the unpark having been consumed by the timed call
C10_Witness ==
    /\ Returned /\ Blocking /\ race = "before"
    /\ \A u \in Unparkers : upc[u] = "idle"
    /\ state = EMPTY /\ ret = Some(TRUE)

\* C11: under the single-waiter contract no fatal branch is reached: the
\* exchange under the mutex never finds PARKED, the swap behind the assert
\* always finds NOTIFIED, the swap after the timed wait finds NOTIFIED or
\* PARKED, unpark's swap finds one of the three states, no thread has
\* panicked, the mutex is not poisoned and every outcome is a boolean.
C11_NoFatalBranch ==
    /\ state \in {EMPTY, PARKED, NOTIFIED}
    /\ pc = "cas" => state \in {EMPTY, NOTIFIED}
    /\ pc = "consume" => state = NOTIFIED
    /\ pc = "swap" => state \in {NOTIFIED, PARKED}
    /\ pc # "panic"
    /\ \A u \in Unparkers : upc[u] # "panic"
    /\ ~poisoned
    /\ ret \in {None, Some(TRUE), Some(FALSE)}
    /\ \A u \in Unparkers : uret[u] \in {None, Some(TRUE), Some(FALSE)}

\* a blocking timed call went through the exchange under the mutex and the
\* swap after its wait and returned a boolean, and an unpark call went
\* through its swap, the mutex and the signal and returned a boolean
C11_Witness ==
    /\ Returned /\ Blocking /\ hLocked /\ hWaited /\ hWake = "notify"
    /\ ret = Some(TRUE)
    /\ \E u \in Unparkers : upc[u] = "idle" /\ uret[u] = Some(TRUE)
    /\ ~poisoned

\* the step of Unparker u that performs the swap of its unpark() call
C12_UnparkSwapStep(u) == upc[u] = "swap" /\ upc'[u] # "swap"

\* C12 (as stated): the swap step of an unpark() call that finds the state
\* EMPTY leaves the state EMPTY, and the call returns true.
C12_Original ==
    [][\A u \in Unparkers :
        (C12_UnparkSwapStep(u) /\ state = EMPTY) =>
            (state' = EMPTY /\ uret'[u] = Some(TRUE))]_vars

\* C12 (amended): the swap step of an unpark() call that finds the state EMPTY
\* leaves the state NOTIFIED, and the call returns true at once, touching
\* neither the mutex nor the condvar.
C12_Amended ==
    [][\A u \in Unparkers :
        (C12_UnparkSwapStep(u) /\ state = EMPTY) =>
            /\ state' = NOTIFIED
            /\ upc'[u] = "idle"
            /\ uret'[u] = Some(TRUE)
            /\ UNCHANGED <<lock, poisoned, cvar>>]_vars

\* one unpark() landed on the EMPTY cell of an idle Parker and returned true
C12_Witness ==
    /\ coal = "u1T" /\ pc = "idle" /\ state = NOTIFIED
    /\ \E u \in Unparkers : upc[u] = "idle" /\ uret[u] = Some(TRUE)

\* C13 (as stated): a park_timeout(d) call with d > 0 that was not woken
\* spuriously returns false only after its timeout has elapsed; a wake-up
\* before the timeout, such as the signal of an unpark of an earlier cycle,
\* never makes it return false.
C13_Original ==
    (Returned /\ Blocking /\ ret = Some(FALSE) /\ hWake # "spurious") => TimerFired

\* C13 (amended): a park_timeout(d) call with d > 0 returns false only after
\* its wait has ended and its swap has found the state still PARKED, no step
\* of the call having consumed a notification; the wait ends when the timeout
\* has elapsed or, before that, on a spurious wake-up or on the signal of an
\* unpark whose notification an earlier call consumed; no unpark swap had
\* landed in the call before that swap.
C13_Amended ==
    (Blocking /\ ret = Some(FALSE) /\ (Returned \/ pc = "drop")) =>
        /\ hLocked /\ hWaited
        /\ hConsumed = 0
        /\ state # PARKED
        /\ hWake \in {"timeout", "spurious", "notify"}
        /\ hWake = "timeout" => TimerFired
        /\ ~hInTime

\* a blocking timed call returned false before its timeout had elapsed, woken
\* by the signal of an unpark whose notification an earlier call consumed
C13_Witness ==
    /\ Returned /\ Blocking /\ ret = Some(FALSE)
    /\ hWake = "notify" /\ ~TimerFired
    /\ hConsumed = 0

\* C14: an unpark swap that lands after the call's fast-path exchange failed
\* and before its EMPTY -> PARKED exchange under the mutex is consumed by the
\* call: it never sets PARKED, never waits on the condvar, and returns true
\* after the one step that took NOTIFIED to EMPTY.
C14_RaceUnderMutex ==
    (hRaced /\ (InCall \/ Returned)) =>
        /\ pc \in {"lock", "cas", "consume", "drop", "idle"}
        /\ state # PARKED
        /\ ~hWaited
        /\ Main \notin cvar
        /\ pc \in {"lock", "cas", "consume"} => (state = NOTIFIED /\ hConsumed = 0)
        /\ pc \in {"drop", "idle"} => (ret = Some(TRUE) /\ hConsumed = 1)

\* the call met the notification under the mutex and returned true
C14_Witness ==
    /\ Returned /\ hRaced /\ hStart = EMPTY /\ hLocked /\ ~hWaited
    /\ ret = Some(TRUE) /\ state = EMPTY

\* C15 (as stated): whenever an unpark() call is about to signal the condvar,
\* the Parker is not between setting PARKED (or finding it again after a
\* wake-up) and beginning to wait.
C15_Original ==
    \A u \in Unparkers : upc[u] = "notify" => pc # "wait"

\* C15 (amended): an unpark() call that saw PARKED holds the mutex only while
\* the Parker does not, and whenever it is about to signal the condvar and its
\* notification has not been consumed yet, the Parker is waiting on the
\* condvar or has left the wait of the cycle the call saw; only a call whose
\* notification has already been consumed can signal while the Parker of a
\* later park* call is between setting PARKED and beginning to wait.
C15_Amended ==
    \A u \in Unparkers :
        /\ upc[u] = "unlock" => (lock = {u} /\ pc \notin {"cas", "consume", "wait",
                                                           "recheck", "swap", "drop"})
        /\ (upc[u] = "notify" /\ u \notin hStale) =>
                /\ pc \in {"waiting", "relock", "recheck", "swap"}
                /\ hWaited
                /\ state = NOTIFIED
        /\ (upc[u] = "notify" /\ pc = "wait") => u \in hStale
        /\ u \in hStale => upc[u] \in {"lock", "unlock", "notify"}

\* an unpark() that saw PARKED went through the mutex and is about to signal
\* the Parker, which is blocked in the wait of the cycle the call saw
C15_Witness ==
    \E u \in Unparkers :
        /\ upc[u] = "notify" /\ u \notin hStale
        /\ pc = "waiting" /\ Main \in cvar /\ state = NOTIFIED

\* C16: for each time the Parker sets PARKED at most one unpark() call sees
\* PARKED and goes on to the mutex and notify_one: the calls on that way whose
\* notification has not been consumed number at most one, and none while the
\* state is PARKED; and an unpark swap that finds NOTIFIED returns false at
\* once and touches neither the mutex nor the condvar.
C16_OneSignaller ==
    /\ Cardinality(Signalling \ hStale) <= 1
    /\ Signalling \ hStale # {} => state = NOTIFIED
C16_LaterSwapsFalse ==
    \A u \in Unparkers :
        (upc[u] = "swap" /\ upc'[u] # "swap" /\ state = NOTIFIED) =>
            /\ upc'[u] = "idle"
            /\ uret'[u] = Some(FALSE)
            /\ state' = NOTIFIED
            /\ UNCHANGED <<lock, poisoned, cvar>>
C16_AtMostOneSignals == []C16_OneSignaller /\ [][C16_LaterSwapsFalse]_vars

\* one unpark() saw PARKED and is on its way to notify_one while another
\* swapped before the consumption, saw NOTIFIED and returned false
C16_Witness ==
    /\ pc \in {"waiting", "relock"} /\ state = NOTIFIED
    /\ \E u \in Unparkers : u \in Signalling \ hStale
    /\ \E u \in Unparkers : upc[u] = "idle" /\ uret[u] = Some(FALSE)
    /\ hSwaps = 2 /\ hTrues = 1

\* the Parker never holds the mutex while it is blocked on the condvar
C17_NotHeldWhileWaiting == (pc = "waiting" \/ Main \in cvar) => Main \notin lock

\* C17 (as stated): under fair scheduling every unpark() call in progress
\* eventually returns (each Unparker is between calls again and again),
\* whatever the Parker does.
C17_Original ==
    \A u \in Unparkers : []<>(upc[u] = "idle")

\* C17 (amended): the Parker never holds the mutex while it is blocked on the
\* condvar, and under fair scheduling every unpark() call in progress
\* eventually returns unless the Parker takes the mutex again and again for
\* ever; so it returns when the Parker stays parked for ever and when the
\* Parker never calls park* again.
C17_Amended ==
    /\ []C17_NotHeldWhileWaiting
    /\ \A u \in Unparkers : []<>(upc[u] = "idle" \/ Main \in lock)
    /\ \A u \in Unparkers :
        (<>[](pc = "waiting") \/ <>[](pc = "idle")) => []<>(upc[u] = "idle")

\* an unpark() call holds the mutex while the Parker is blocked on the condvar
C17_Witness ==
    /\ pc = "waiting" /\ Main \in cvar
    /\ \E u \in Unparkers : upc[u] = "unlock" /\ lock = {u}

\* C18: the mutex is released on every exit path: whenever the Parker is not
\* inside a park* call, or is inside one but before its lock() or blocked in
\* the condvar wait, it does not hold the mutex; and the mutex never has two
\* holders.
C18_MutexReleased ==
    /\ pc \in {"idle", "fast", "lock", "waiting", "relock", "panic"} => Main \notin lock
    /\ pc \in {"cas", "consume", "wait", "recheck", "swap", "drop"} => lock = {Main}
    /\ Cardinality(lock) <= 1

\* an untimed park() took the mutex, waited, was signalled and returned, and
\* the mutex is free
C18_Witness ==
    /\ Returned /\ hLocked /\ hWaited /\ hWake = "notify"
    /\ Untimed /\ ret = Some(TRUE)
    /\ lock = {}

\* C19: PARKED is never leaked: the state is PARKED only while the Parker is
\* inside the slow path, after its EMPTY -> PARKED exchange and before the
\* step that takes it back; once a park* call has its result the state is
\* EMPTY or NOTIFIED.
C19_ParkedNotLeaked ==
    /\ state = PARKED => pc \in {"wait", "waiting", "relock", "recheck", "swap"}
    /\ (Returned \/ pc = "drop") => state \in {EMPTY, NOTIFIED}

\* a blocking timed call timed out, un-flagged PARKED and returned false
C19_Witness ==
    /\ Returned /\ Blocking /\ hWaited /\ hWake = "timeout"
    /\ ret = Some(FALSE) /\ state = EMPTY

\* C20: conservation of notifications: the number of unpark swaps that saw a
\* state other than NOTIFIED, less the number of park* steps that took
\* NOTIFIED to EMPTY, is one when the state is NOTIFIED and zero otherwise;
\* it is also the number of such swaps since the last consuming step, and
\* every consuming step took exactly one of them away.
C20_Conservation ==
    /\ hBalance = (IF state = NOTIFIED THEN 1 ELSE 0)
    /\ hTrues = hBalance
    /\ hConsumed \in {0, 1}
    /\ hConsumed = 1 => hAbsTrues = 1
    /\ hAbsTrues \in {0, 1}

\* a call consumed one notification and another one has been stored since
C20_Witness ==
    /\ Returned /\ hConsumed = 1 /\ hAbsTrues = 1
    /\ hBalance = 1 /\ state = NOTIFIED

====
